---- MODULE Spec2Model ----
(***************************************************************************)
(* A model of breba-docs' command execution subsystem:                     *)
(*   - collect_output and LocalCommandExecutor (command_executor.py),      *)
(*     driving a shell session through a pseudo-terminal;                  *)
(*   - ContainerCommandExecutor, draining responses of a socket peer;      *)
(*   - GraphAgent's goal pipeline and its repair loop (graph_agent.py).    *)
(*                                                                         *)
(* Text is a sequence of characters; a character is a pair <<kind, n>>:    *)
(*   <<"o", i>>  one character of command i's own output                   *)
(*   <<"a", i>>, <<"b", i>>  the two halves of command i's end marker      *)
(*   <<"e", i>>  the echo-back of command i's text                         *)
(*   <<"t", 0>>  an input text supplied by the agent, <<"n", 0>> linesep   *)
(*   <<"noop", 0>> the text "breba-noop"                                   *)
(*   <<"x", 0>>  what the shell prints for a line that is no command       *)
(*   <<"h", 0>>  the shell's start-up message                              *)
(*   <<"p", k>>  a payload character of a response of the socket peer      *)
(***************************************************************************)
EXTENDS Integers, Sequences, FiniteSets, TLC

VARIABLES
    executor,        \* "local" | "container" | "none": the class whose execute_commands_sync runs
    unbounded,       \* FALSE: the environment is bounded by the Max* bounds; TRUE: it is not,
                     \*   and texts are kept up to MaxText characters only
    pc,              \* position of execute_commands_sync
    ncommands,       \* len(commands); command i is the i-th of the batch, 1..ncommands
    idx,             \* number of commands of the batch already judged
    report,          \* the list `report`
    command_output,  \* execute_commands_sync's command_output / response
    acc,             \* collect_output's local command_output
    new_output,      \* what the last collect_output call returned
    sessOpen,        \* the session (spawned shell / socket connection) is open
    opens,           \* number of sessions opened so far (history)
    alive,           \* the shell process has not exited
    eof,             \* a read of the session has raised EOF (history)
    stdin,           \* lines written to the session and not yet read by the shell
    running,         \* the command the shell is executing, 0 when it is idle
    emitted,         \* characters the commands of the batch have printed so far
    outbuf,          \* output of the session not yet read by the executor
    sent,            \* what the executor sent into the session for the current command (history)
    inputs,          \* number of inputs the agent has supplied
    lastOracle,      \* the last provide_input call of this round (history): "noop" it asked for no
                     \*   input, "text" it gave a text, "failed" a run of it did not complete,
                     \*   "none" before any call
    asked,           \* the text the last provide_input call was given, while the collection
                     \*   that follows the call runs (history)
    response,        \* collect_response's parameter `response`
    stack,           \* pending collect_response frames: response + input_response of each
    received,        \* responses received for the current command, in order (history)
    gpc,             \* node of the goal pipeline
    goals,           \* state['goals']
    goal_reports,    \* state['goal_reports']: GoalReport records holding list references
    lists,           \* the heap of Python list objects: reference -> contents
    cur,             \* execute_mutator_commands' current_goal: <<>> or <<the GoalReport>>
    mpos,            \* number of command reports the repair loop has visited
    prev_reports,    \* goal_reports of the previous pipeline state (history)
    prev_deep,       \* contents of prev_reports when the running stage started (history)
    calls,           \* indices for which fetch_modify_file_commands was called (history)
    fixes            \* corrective commands returned so far in this repair pass (history)


execVars  == <<executor, unbounded, pc, ncommands, idx, report, command_output,
               sessOpen, opens, sent, inputs, lastOracle, asked>>
localVars == <<acc, new_output, alive, eof, stdin, running, emitted, outbuf>>
contVars  == <<response, stack, received>>
graphVars == <<gpc, goals, goal_reports, lists, cur, mpos,
               prev_reports, prev_deep, calls, fixes>>
vars == <<execVars, localVars, contVars, graphVars>>

(***************************************************************************)
(* Bounds of the model.                                                    *)
(***************************************************************************)
MaxCmds == 2       \* commands in a batch
MaxOut == 1        \* characters of their own the commands of a batch print (bounded environment)
MaxInputs == 1     \* inputs the agent supplies in a batch (bounded environment)
MaxText == 3       \* characters of a text kept when the environment is unbounded
ReadSize == 2      \* characters one read returns at most (the code reads up to 1024)
MaxGoals == 2      \* goals identify_goals returns
MaxGoalCmds == 2   \* commands identify_commands returns for a goal
MaxFix == 1        \* corrective commands returned in one repair pass (bounded environment)
MaxResp == 3       \* responses that are not empty the peer gives in one round (bounded environment)

(***************************************************************************)
(* Text helpers.                                                           *)
(***************************************************************************)
Min(a, b) == IF a < b THEN a ELSE b

Take(s, n) == SubSeq(s, 1, Min(n, Len(s)))

Drop(s, n) == SubSeq(s, Min(n, Len(s)) + 1, Len(s))

\* Python's `sub in s` on strings
Contains(sub, s) ==
    \E k \in 0..(Len(s) - Len(sub)) : SubSeq(s, k + 1, k + Len(sub)) = sub

\* Python's a + b on strings (truncated only when the environment is unbounded)
Cat(a, b) == IF unbounded THEN Take(a \o b, MaxText) ELSE a \o b

\* a history variable extended (kept up to MaxText entries when the environment is
\* unbounded)
Log(h, rs) == IF unbounded THEN Take(h \o rs, MaxText) ELSE h \o rs

\* command_end_marker = f"Completed {command_id}", fresh for every command
Marker(i) == << <<"a", i>>, <<"b", i>> >>

LineSep == << <<"n", 0>> >>

\* the values agent.provide_input can return: None, or a string (they are also
\* the results of a do_run call that are not "Yes")
NoneValue == [some |-> FALSE, text |-> <<>>]
Str(t) == [some |-> TRUE, text |-> t]
Noop == Str(<< <<"noop", 0>> >>)
Instructions == {NoneValue, Noop, Str(<<>>), Str(<< <<"t", 0>> >>)}

\* Python truthiness of an Optional[str]
Truthy(v) == v.some /\ v.text # <<>>

\* the reply "Yes"
Yes == Str(<< <<"y", 0>> >>)

\* what the do_run calls of one provide_input call return, in order: do_run
\* returns None when the run did not complete and the agent's reply otherwise;
\* the second call is made after a first "Yes", the third after a second "Yes"
\* (a member of Instructions stands for any result that is not "Yes")
OracleRuns ==
    {<<has_prompt>> : has_prompt \in Instructions}
      \cup {<<Yes, prompt_verified>> : prompt_verified \in Instructions}
      \cup {<<Yes, Yes, prompt_answer>> : prompt_answer \in Instructions}

\* OpenAIAgent.provide_input, given what its do_run calls return
ProvideInput(runs) ==
    LET has_prompt == runs[1] IN
      IF has_prompt = Yes
        THEN LET prompt_verified == runs[2] IN
               IF prompt_verified = Yes THEN runs[3] ELSE Noop
        ELSE Noop

\* how a provide_input call went
OracleClass(runs) ==
    IF \E i \in 1..Len(runs) : runs[i] = NoneValue THEN "failed"
    ELSE IF ProvideInput(runs) # Noop /\ Truthy(ProvideInput(runs)) THEN "text"
    ELSE "noop"

\* (mutant of GatewayText: the whole record of the command is passed)
GatewayText_whole(chunk, record) == record \o chunk

\* self.get_input_text(new_output): the text passed to the agent, of the chunk
\* collect_output returned and the record of the command before it
GatewayText(chunk, record) == chunk

\* (mutant of RecordInput: the line separator is left out)
RecordInput_nosep(record, text) == record \o text

\* command_output += input_text + os.linesep
RecordInput(record, text) == Cat(record, text \o LineSep)

\* (mutant of GetInputText: "breba-noop" is not recognised)
GetInputText_nocheck(instruction) ==
    IF Truthy(instruction) THEN instruction ELSE NoneValue

\* LocalCommandExecutor.get_input_text, given what provide_input returned
GetInputText(instruction) ==
    IF instruction = Noop THEN NoneValue
    ELSE IF Truthy(instruction) THEN instruction
    ELSE NoneValue

\* (mutant of AppendReport: the report is put in front)
AppendReport_front(rep, r) == <<r>> \o rep

\* report.append(agent_output)
AppendReport(rep, r) == Append(rep, r)

\* the CommandReport analyze_output makes of the text captured in command i's round
\* (the text is command_output at that moment; the verdict is the agent's and
\* decides nothing in the executors)
CommandReport(i) == [command |-> i]

(***************************************************************************)
(* The shell session behind the pseudo-terminal (pexpect.spawn('/bin/bash')*)
(* with echo=False).  It reads the lines written to it one at a time and   *)
(* runs each to its end before reading the next; what a command prints,    *)
(* whether it succeeds, reads its standard input or ends the shell is the  *)
(* environment's choice.                                                   *)
(***************************************************************************)
EchoLine(i) == [type |-> "echo", cmd |-> i, text |-> <<>>]
CmdLine(i) == [type |-> "cmd", cmd |-> i, text |-> <<>>]
InputLine(t) == [type |-> "input", cmd |-> 0, text |-> t]

\* process.sendline(...): the line reaches the shell's input if the shell still runs
SendLines(ls) == IF ~alive THEN stdin
                 ELSE IF unbounded THEN Take(stdin \o ls, MaxText)
                 ELSE stdin \o ls

ShellUp == executor = "local" /\ sessOpen /\ alive

\* an unread backlog is bounded only when the environment is unbounded
Room(n) == unbounded => Len(outbuf) + n <= MaxText

\* the idle shell reads the next line: `echo <command>` prints the command text,
\* `<command> && echo <marker>` starts the command, any other line is run as a
\* command of its own and prints something
ShellNext ==
    /\ ShellUp /\ running = 0 /\ stdin # <<>>
    /\ LET l == Head(stdin) IN
         /\ stdin' = Tail(stdin)
         /\ CASE l.type = "echo" ->
                   /\ Room(1)
                   /\ outbuf' = Append(outbuf, <<"e", l.cmd>>)
                   /\ UNCHANGED <<running, emitted>>
              [] l.type = "cmd" ->
                   /\ running' = l.cmd
                   /\ UNCHANGED <<outbuf, emitted>>
              [] OTHER ->
                   /\ Room(1)
                   /\ outbuf' = Append(outbuf, <<"x", 0>>)
                   /\ UNCHANGED <<running, emitted>>
    /\ UNCHANGED <<execVars, contVars, graphVars, acc, new_output, alive, eof>>

\* the running command prints one character
ShellEmit ==
    /\ ShellUp /\ running # 0
    /\ unbounded \/ emitted < MaxOut
    /\ Room(1)
    /\ outbuf' = Append(outbuf, <<"o", running>>)
    /\ emitted' = Min(emitted + 1, MaxOut)
    /\ UNCHANGED <<execVars, contVars, graphVars, acc, new_output, alive, eof, stdin,
                   running>>

\* the running command exits with status 0: `&& echo <marker>` prints the marker
ShellFinishOk ==
    /\ ShellUp /\ running # 0
    /\ Room(2)
    /\ outbuf' = outbuf \o Marker(running)
    /\ running' = 0
    /\ UNCHANGED <<execVars, contVars, graphVars, acc, new_output, alive, eof, stdin,
                   emitted>>

\* the running command exits with another status: `&&` skips the echo
ShellFinishFail ==
    /\ ShellUp /\ running # 0
    /\ running' = 0
    /\ UNCHANGED <<execVars, contVars, graphVars, acc, new_output, alive, eof, stdin,
                   emitted, outbuf>>

\* the running command reads one line of its standard input
ShellConsume ==
    /\ ShellUp /\ running # 0 /\ stdin # <<>>
    /\ stdin' = Tail(stdin)
    /\ UNCHANGED <<execVars, contVars, graphVars, acc, new_output, alive, eof, running,
                   emitted, outbuf>>

\* the running command ends the shell (exit, exec, kill $$)
ShellExit ==
    /\ ShellUp /\ running # 0
    /\ alive' = FALSE
    /\ running' = 0
    /\ UNCHANGED <<execVars, contVars, graphVars, acc, new_output, eof, stdin, emitted,
                   outbuf>>

(***************************************************************************)
(* LocalCommandExecutor.execute_commands_sync and collect_output.          *)
(***************************************************************************)
\* (mutant of MarkerIn: the marker is never recognised)
MarkerIn_never(marker, output) == FALSE

\* `command_end_marker in output`
MarkerIn(marker, output) == Contains(marker, output)

\* process = pexpect.spawn('/bin/bash', ...): the shell may or may not greet
LocalSpawn ==
    /\ executor = "local" /\ pc = "start"
    /\ sessOpen' = TRUE
    /\ opens' = opens + 1
    /\ alive' = TRUE
    /\ \E banner \in {<<>>, << <<"h", 0>> >>} : outbuf' = banner
    /\ pc' = "banner"
    /\ UNCHANGED <<executor, unbounded, ncommands, idx, report, command_output, sent,
                   inputs, lastOracle, asked, acc, new_output, eof, stdin, running,
                   emitted, contVars, graphVars>>

\* process.read_nonblocking(1024, timeout=0.5), outside any try
LocalBanner ==
    /\ executor = "local" /\ pc = "banner"
    /\ IF outbuf # <<>>
         THEN /\ outbuf' = Drop(outbuf, ReadSize)
              /\ pc' = "loop"
         ELSE /\ pc' = "raised"       \* pexpect.exceptions.TIMEOUT propagates
              /\ UNCHANGED outbuf
    /\ UNCHANGED <<executor, unbounded, ncommands, idx, report, command_output, sessOpen,
                   opens, sent, inputs, lastOracle, asked, acc, new_output, alive, eof,
                   stdin, running, emitted, contVars, graphVars>>

\* for command in commands: echo it, mint the marker, submit the wrapped command,
\* and enter the collection loop with its first collect_output call
LocalSubmit ==
    /\ executor = "local" /\ pc = "loop" /\ idx < ncommands
    /\ LET ls == <<EchoLine(idx + 1), CmdLine(idx + 1)>> IN
         /\ stdin' = SendLines(ls)
         /\ sent' = ls
    /\ command_output' = <<>>
    /\ acc' = <<>>
    /\ lastOracle' = "none"
    /\ asked' = <<>>
    /\ pc' = "collect"
    /\ UNCHANGED <<executor, unbounded, ncommands, idx, report, sessOpen, opens, inputs,
                   new_output, alive, eof, running, emitted, outbuf, contVars, graphVars>>

\* a write into the pseudo-terminal of a shell that has exited may raise OSError
LocalWriteFails ==
    /\ executor = "local" /\ ~alive
    /\ \/ pc = "loop" /\ idx < ncommands
       \/ pc = "collected" /\ new_output # <<>>
    /\ pc' = "raised"
    /\ UNCHANGED <<executor, unbounded, ncommands, idx, report, command_output, sessOpen,
                   opens, sent, inputs, lastOracle, asked, localVars, contVars, graphVars>>

\* collect_output, one turn of its loop: a read that delivers a chunk
CollectRead ==
    /\ executor = "local" /\ pc = "collect" /\ outbuf # <<>>
    /\ LET output == Take(outbuf, ReadSize) IN
         /\ outbuf' = Drop(outbuf, ReadSize)
         /\ acc' = Cat(acc, output)
         /\ IF MarkerIn(Marker(idx + 1), output)
              THEN /\ new_output' = acc'
                   /\ asked' = <<>>
                   /\ pc' = "collected"
              ELSE UNCHANGED <<new_output, asked, pc>>
    /\ UNCHANGED <<executor, unbounded, ncommands, idx, report, command_output, sessOpen,
                   opens, sent, inputs, lastOracle, alive, eof, stdin, running, emitted,
                   contVars, graphVars>>

\* collect_output: the read raises TIMEOUT (nothing arrived in time) or EOF (the
\* shell is gone and its output is drained); both break and return what was read,
\* and nothing else
CollectTimeoutOrEOF ==
    /\ executor = "local" /\ pc = "collect" /\ outbuf = <<>>
    /\ new_output' = acc
    /\ eof' = (eof \/ ~alive)
    /\ asked' = <<>>
    /\ pc' = "collected"
    /\ UNCHANGED <<executor, unbounded, ncommands, idx, report, command_output, sessOpen,
                   opens, sent, inputs, lastOracle, acc, alive, stdin, running, emitted,
                   outbuf, contVars, graphVars>>

\* command_output += new_output; new_output is empty: break
LocalBreak ==
    /\ executor = "local" /\ pc = "collected" /\ new_output = <<>>
    /\ command_output' = Cat(command_output, new_output)
    /\ pc' = "judge"
    /\ UNCHANGED <<executor, unbounded, ncommands, idx, report, sessOpen, opens, sent,
                   inputs, lastOracle, asked, localVars, contVars, graphVars>>

\* command_output += new_output; new_output is not empty: ask the agent, send the
\* input it supplies if any, and call collect_output again
LocalInput ==
    /\ executor = "local" /\ pc = "collected" /\ new_output # <<>>
    /\ \E runs \in OracleRuns :
         LET instruction == ProvideInput(runs)
             input_text == GetInputText(instruction) IN
           /\ lastOracle' = OracleClass(runs)
           /\ asked' = GatewayText(new_output, command_output)
           /\ IF Truthy(input_text)
                THEN /\ unbounded \/ inputs < MaxInputs
                     /\ command_output' =
                          RecordInput(Cat(command_output, new_output), input_text.text)
                     /\ stdin' = SendLines(<<InputLine(input_text.text)>>)
                     /\ sent' = Log(sent, <<InputLine(input_text.text)>>)
                     /\ inputs' = Min(inputs + 1, MaxInputs)
                ELSE /\ command_output' = Cat(command_output, new_output)
                     /\ UNCHANGED <<stdin, sent, inputs>>
    /\ acc' = <<>>
    /\ pc' = "collect"
    /\ UNCHANGED <<executor, unbounded, ncommands, idx, report, sessOpen, opens,
                   new_output, alive, eof, running, emitted, outbuf, contVars, graphVars>>

\* agent_output = self.agent.analyze_output(command_output); report.append(agent_output)
LocalJudge ==
    /\ executor = "local" /\ pc = "judge"
    /\ report' = AppendReport(report, CommandReport(idx + 1))
    /\ idx' = idx + 1
    /\ pc' = "loop"
    /\ UNCHANGED <<executor, unbounded, ncommands, command_output, sessOpen, opens, sent,
                   inputs, lastOracle, asked, localVars, contVars, graphVars>>

\* provide_input or analyze_output raises (the service fails, the reply does not parse)
LocalAgentRaises ==
    /\ executor = "local"
    /\ \/ pc = "collected" /\ new_output # <<>>
       \/ pc = "judge"
    /\ pc' = "raised"
    /\ UNCHANGED <<executor, unbounded, ncommands, idx, report, command_output, sessOpen,
                   opens, sent, inputs, lastOracle, asked, localVars, contVars, graphVars>>

\* return report: nothing closes the spawned shell
LocalReturn ==
    /\ executor = "local" /\ pc = "loop" /\ idx = ncommands
    /\ pc' = "returned"
    /\ UNCHANGED <<executor, unbounded, ncommands, idx, report, command_output, sessOpen,
                   opens, sent, inputs, lastOracle, asked, localVars, contVars, graphVars>>

(***************************************************************************)
(* ContainerCommandExecutor: execute_commands_sync and collect_response,   *)
(* over a socket peer whose responses are the environment's choice.  The   *)
(* k-th response received in a command's round is empty or <<"p", k>>.     *)
(***************************************************************************)
CommandMsg(i) == [type |-> "command", cmd |-> i, text |-> <<>>]
InputMsg(t) == [type |-> "input", cmd |-> 0, text |-> t]

\* what the peer may answer as the k-th response of a round
Responses(k) ==
    IF unbounded THEN {<<>>, << <<"p", Min(k, MaxText)>> >>}
    ELSE IF k <= MaxResp THEN {<<>>, << <<"p", k>> >>}
    ELSE {<<>>}

\* a response as the history keeps it: which read received it, and its text
Received(role, r) == [role |-> role, text |-> r]

\* a new collect_response frame (merged into the top one beyond MaxText frames
\* when the environment is unbounded)
Push(st, frame) ==
    IF unbounded /\ Len(st) >= MaxText
      THEN [st EXCEPT ![Len(st)] = Cat(@, frame)]
      ELSE Append(st, frame)

\* ContainerCommandExecutor.get_input_message, given what provide_input returned
\* (the text the JSON message carries, or None)
GetInputMessage(instruction) ==
    IF instruction = Noop THEN NoneValue
    ELSE IF Truthy(instruction) THEN instruction
    ELSE NoneValue

\* (mutant of CollectResponseResult: the recursive result is put in front)
CollectResponseResult_swapped(frame, additional_response) ==
    Cat(additional_response, frame)

\* what collect_response returns, given what its recursive call returned
CollectResponseResult(frame, additional_response) == Cat(frame, additional_response)

\* with Client() as socket_client: the connection is opened
ContainerConnect ==
    /\ executor = "container" /\ pc = "start"
    /\ sessOpen' = TRUE
    /\ opens' = opens + 1
    /\ pc' = "loop"
    /\ UNCHANGED <<executor, unbounded, ncommands, idx, report, command_output, sent,
                   inputs, lastOracle, asked, localVars, contVars, graphVars>>

\* response = socket_client.send_message(json.dumps(command)), and collect_response
\* is entered with it
ContainerSend ==
    /\ executor = "container" /\ pc = "loop" /\ idx < ncommands
    /\ sent' = <<CommandMsg(idx + 1)>>
    /\ \E r \in Responses(1) :
         /\ response' = r
         /\ received' = <<Received("initial", r)>>
    /\ stack' = <<>>
    /\ command_output' = <<>>
    /\ lastOracle' = "none"
    /\ asked' = <<>>
    /\ pc' = "cr"
    /\ UNCHANGED <<executor, unbounded, ncommands, idx, report, sessOpen, opens, inputs,
                   localVars, graphVars>>

\* collect_response with an empty response: return ''
CrEmpty ==
    /\ executor = "container" /\ pc = "cr" /\ response = <<>>
    /\ command_output' = <<>>
    /\ pc' = "unwind"
    /\ UNCHANGED <<executor, unbounded, ncommands, idx, report, sessOpen, opens, sent,
                   inputs, lastOracle, asked, localVars, contVars, graphVars>>

\* collect_response with a response that is not empty: ask the agent, send the
\* input message if there is one and take its response, then read one more
\* response and recurse on it
CrRecurse ==
    /\ executor = "container" /\ pc = "cr" /\ response # <<>>
    /\ \E runs \in OracleRuns :
         LET instruction == ProvideInput(runs)
             input_message == GetInputMessage(instruction)
             k == Len(received) IN
           /\ lastOracle' = OracleClass(runs)
           /\ asked' = response
           /\ IF Truthy(input_message)
                THEN /\ unbounded \/ inputs < MaxInputs
                     /\ inputs' = Min(inputs + 1, MaxInputs)
                     /\ sent' = Log(sent, <<InputMsg(input_message.text)>>)
                     /\ \E input_response \in Responses(k + 1),
                           trailing \in Responses(k + 2) :
                          /\ stack' = Push(stack, Cat(response, input_response))
                          /\ received' = Log(received, <<Received("input", input_response),
                                                    Received("trailing", trailing)>>)
                          /\ response' = trailing
                ELSE /\ UNCHANGED <<inputs, sent>>
                     /\ \E trailing \in Responses(k + 1) :
                          /\ stack' = Push(stack, Cat(response, <<>>))
                          /\ received' = Log(received, <<Received("trailing", trailing)>>)
                          /\ response' = trailing
    /\ UNCHANGED <<executor, unbounded, pc, ncommands, idx, report, command_output,
                   sessOpen, opens, localVars, graphVars>>

\* a pending collect_response frame returns response + input_response + additional_response
CrReturn ==
    /\ executor = "container" /\ pc = "unwind" /\ stack # <<>>
    /\ command_output' = CollectResponseResult(stack[Len(stack)], command_output)
    /\ stack' = SubSeq(stack, 1, Len(stack) - 1)
    /\ UNCHANGED <<executor, unbounded, pc, ncommands, idx, report, sessOpen, opens, sent,
                   inputs, lastOracle, asked, localVars, response, received, graphVars>>

\* agent_output = self.agent.analyze_output(response); report.append(agent_output)
ContainerJudge ==
    /\ executor = "container" /\ pc = "unwind" /\ stack = <<>>
    /\ report' = AppendReport(report, CommandReport(idx + 1))
    /\ idx' = idx + 1
    /\ pc' = "loop"
    /\ UNCHANGED <<executor, unbounded, ncommands, command_output, sessOpen, opens, sent,
                   inputs, lastOracle, asked, localVars, contVars, graphVars>>

\* provide_input, analyze_output, send_message or read_response raises: the with
\* statement closes the connection on the way out
ContainerRaises ==
    /\ executor = "container"
    /\ \/ pc = "loop" /\ idx < ncommands
       \/ pc = "cr" /\ response # <<>>
       \/ pc = "unwind" /\ stack = <<>>
    /\ sessOpen' = FALSE
    /\ pc' = "raised"
    /\ UNCHANGED <<executor, unbounded, ncommands, idx, report, command_output, opens,
                   sent, inputs, lastOracle, asked, localVars, contVars, graphVars>>

\* the with block ends (the connection is closed) and report is returned
ContainerReturn ==
    /\ executor = "container" /\ pc = "loop" /\ idx = ncommands
    /\ sessOpen' = FALSE
    /\ pc' = "returned"
    /\ UNCHANGED <<executor, unbounded, ncommands, idx, report, command_output, opens,
                   sent, inputs, lastOracle, asked, localVars, contVars, graphVars>>

ShellStep == ShellNext \/ ShellEmit \/ ShellFinishOk \/ ShellFinishFail
             \/ ShellConsume \/ ShellExit

LocalStep == LocalSpawn \/ LocalBanner \/ LocalSubmit \/ LocalWriteFails
             \/ CollectRead \/ CollectTimeoutOrEOF \/ LocalBreak \/ LocalInput
             \/ LocalJudge \/ LocalAgentRaises \/ LocalReturn

ContainerStep == ContainerConnect \/ ContainerSend \/ CrEmpty \/ CrRecurse
                 \/ CrReturn \/ ContainerJudge \/ ContainerRaises \/ ContainerReturn

GraphIdle ==
    /\ goals = <<>> /\ goal_reports = <<>> /\ lists = <<>>
    /\ cur = <<>> /\ mpos = 0 /\ prev_reports = <<>>
    /\ prev_deep = <<>> /\ calls = <<>> /\ fixes = 0

InitExec(ub, sizes) ==
    /\ executor \in {"local", "container"}
    /\ unbounded = ub
    /\ pc = "start"
    /\ ncommands \in sizes
    /\ idx = 0 /\ report = <<>> /\ command_output = <<>>
    /\ acc = <<>> /\ new_output = <<>>
    /\ sessOpen = FALSE /\ opens = 0 /\ alive = FALSE /\ eof = FALSE
    /\ stdin = <<>> /\ running = 0 /\ emitted = 0 /\ outbuf = <<>>
    /\ sent = <<>> /\ inputs = 0 /\ lastOracle = "none" /\ asked = <<>>
    /\ response = <<>> /\ stack = <<>> /\ received = <<>>
    /\ gpc = "off"
    /\ GraphIdle

Init == InitExec(FALSE, 0..MaxCmds)

Next == LocalStep \/ ShellStep \/ ContainerStep

Spec == Init /\ [][Next]_vars

\* The same executors against an environment that is not bounded: commands may
\* print without end, the agent may supply input without end, the peer may answer
\* without end, in a batch of one command.  execute_commands_sync is one thread that always takes its next
\* step; nothing is assumed of the shell or of the peer.
InitUnbounded == InitExec(TRUE, {1})

FairSpec == InitUnbounded /\ [][Next]_vars /\ WF_vars(LocalStep) /\ WF_vars(ContainerStep)

(***************************************************************************)
(* GraphAgent: the goal pipeline.  GoalReport objects hold references to   *)
(* Python list objects; `lists` is the heap of those lists.  The executors *)
(* are taken by their result here: one CommandReport per command, with the *)
(* verdict the agent gave.                                                 *)
(***************************************************************************)
Judged == {"success", "failure"}

\* a CommandReport of the pipeline: CommandReport(command, success, insights),
\* success being None ("unknown") until the command was judged
GoalCommandReport(c, v) == [command |-> c, success |-> v]

\* the lists of n CommandReports an executor can return for n commands
ExecutorResults(n) ==
    {[i \in 1..n |-> GoalCommandReport(i, v[i])] : v \in [1..n -> Judged]}

\* GoalReport(goal_name, goal_description, command_reports): the list of
\* modification reports is not passed and starts as a new empty list, allocated
\* at `mods`
NewGoalReport(g, cmds, mods) ==
    [goal_name |-> g, command_reports |-> cmds, modify_command_reports |-> mods]

\* dataclasses.replace(report) with no changes: a new object, the same fields
Replace(gr) == gr

\* (mutant of NotSuccess: the `not` is missing)
NotSuccess_inverted(r) == r.success = "success"

\* `not command_report.success`
NotSuccess(r) == r.success # "success"

\* what a list of GoalReports shows to a reader: the contents behind the references
DeepOf(grs) ==
    [i \in 1..Len(grs) |->
        [goal_name |-> grs[i].goal_name,
         command_reports |-> lists[grs[i].command_reports],
         modify_command_reports |-> lists[grs[i].modify_command_reports]]]

\* (mutant of Last: the first element is taken)
Last_first(q) == q[1]

\* q[-1] and q[:-1] of a Python list
Last(q) == q[Len(q)]
Front(q) == SubSeq(q, 1, Len(q) - 1)

\* identify_goals: the model names the goals of the document
IdentifyGoals ==
    /\ gpc = "identify_goals"
    /\ \E n \in 0..MaxGoals : goals' = [i \in 1..n |-> i]
    /\ gpc' = "identify_commands"
    /\ prev_reports' = goal_reports
    /\ prev_deep' = DeepOf(goal_reports)
    /\ UNCHANGED <<goal_reports, lists, cur, mpos, calls, fixes, execVars, localVars,
                   contVars>>

\* identify_commands: the first goal's commands become CommandReports not yet
\* judged, in a new GoalReport appended to a new goal_reports list
IdentifyCommands ==
    /\ gpc = "identify_commands"
    /\ IF goals = <<>>
         THEN /\ gpc' = "raised"                 \* state['goals'][0]: IndexError
              /\ UNCHANGED <<goals, goal_reports, lists>>
         ELSE \E n \in 1..MaxGoalCmds :
                LET command_reports == [i \in 1..n |-> GoalCommandReport(i, "unknown")]
                    goal_report == NewGoalReport(goals[1], Len(lists) + 1, Len(lists) + 2)
                IN /\ lists' = lists \o <<command_reports, <<>>>>
                   /\ goals' = Tail(goals)
                   /\ goal_reports' = goal_reports \o <<goal_report>>
                   /\ gpc' = "execute_commands"
    /\ prev_reports' = goal_reports
    /\ prev_deep' = DeepOf(goal_reports)
    /\ UNCHANGED <<cur, mpos, calls, fixes, execVars, localVars, contVars>>

\* execute_commands: the last goal's commands are run by a
\* ContainerCommandExecutor, and a new GoalReport with the reports takes the last
\* place of a new goal_reports list
ExecuteCommands ==
    /\ gpc = "execute_commands"
    /\ LET current_goal == Last(goal_reports)
           commands == lists[current_goal.command_reports]
       IN \E command_reports \in ExecutorResults(Len(commands)) :
            LET updated_goal == NewGoalReport(current_goal.goal_name,
                                              Len(lists) + 1, Len(lists) + 2)
            IN /\ lists' = lists \o <<command_reports, <<>>>>
               /\ goal_reports' = Front(goal_reports) \o <<updated_goal>>
    /\ gpc' = "execute_mutator_commands"
    /\ prev_reports' = goal_reports
    /\ prev_deep' = DeepOf(goal_reports)
    /\ UNCHANGED <<goals, cur, mpos, calls, fixes, execVars, localVars, contVars>>

\* execute_mutator_commands, its first two lines: current_goal is a copy of the
\* last GoalReport, and the loop over its command reports starts
MutatorStart ==
    /\ gpc = "execute_mutator_commands"
    /\ cur' = <<Replace(Last(goal_reports))>>
    /\ mpos' = 0
    /\ calls' = <<>>
    /\ fixes' = 0
    /\ gpc' = "repair"
    /\ prev_reports' = goal_reports
    /\ prev_deep' = DeepOf(goal_reports)
    /\ UNCHANGED <<goals, goal_reports, lists, execVars, localVars, contVars>>

\* one turn of the loop: for a report that is not a success, corrective commands
\* are fetched and run by a LocalCommandExecutor, and their reports are added with
\* current_goal.modify_command_reports += modify_report, which extends the list
\* object in place
RepairStep ==
    /\ gpc = "repair"
    /\ LET current_goal == cur[1]
           command_reports == lists[current_goal.command_reports]
       IN /\ mpos < Len(command_reports)
          /\ IF NotSuccess(command_reports[mpos + 1])
               THEN \E n \in 0..(MaxFix - fixes) :
                      \E modify_report \in ExecutorResults(n) :
                        /\ lists' = [lists EXCEPT
                               ![current_goal.modify_command_reports] = @ \o modify_report]
                        /\ calls' = Append(calls, mpos + 1)
                        /\ fixes' = fixes + n
               ELSE UNCHANGED <<lists, calls, fixes>>
    /\ mpos' = mpos + 1
    /\ UNCHANGED <<gpc, goals, goal_reports, cur, prev_reports, prev_deep, execVars,
                   localVars, contVars>>

\* the loop is over: copies of the earlier GoalReports and current_goal make the
\* new goal_reports list
MutatorFinish ==
    /\ gpc = "repair"
    /\ mpos = Len(lists[cur[1].command_reports])
    /\ goal_reports' =
         [i \in 1..(Len(goal_reports) - 1) |-> Replace(goal_reports[i])] \o <<cur[1]>>
    /\ cur' = <<>>
    /\ gpc' = "process_more_goals"
    /\ UNCHANGED <<goals, lists, mpos, prev_reports, prev_deep, calls, fixes, execVars,
                   localVars, contVars>>

\* (mutant of HasMoreGoals: no goal is ever seen as left)
HasMoreGoals_never(gs) == FALSE

\* process_more_goals: len(state['goals']) > 0
HasMoreGoals(gs) == Len(gs) > 0

\* process_more_goals decides the edge out of execute_mutator_commands:
\* {True: "identify_commands", False: END}
ProcessMoreGoals ==
    /\ gpc = "process_more_goals"
    /\ gpc' = IF HasMoreGoals(goals) THEN "identify_commands" ELSE "END"
    /\ mpos' = 0 /\ calls' = <<>> /\ fixes' = 0     \* the repair pass is history
    /\ UNCHANGED <<goals, goal_reports, lists, cur, prev_reports, prev_deep, execVars,
                   localVars, contVars>>

\* a call to the model, the agent or an executor raises: the pipeline fails
GraphRaises ==
    /\ gpc \in {"identify_goals", "identify_commands", "execute_commands", "repair"}
    /\ gpc' = "raised"
    /\ UNCHANGED <<goals, goal_reports, lists, cur, mpos, prev_reports, prev_deep, calls,
                   fixes, execVars, localVars, contVars>>

\* GraphAgent.invoke: graph.invoke({"messages": [], "goals": [], "goal_reports": []})
InitGraph ==
    /\ executor = "none" /\ unbounded = FALSE /\ pc = "off"
    /\ ncommands = 0 /\ idx = 0 /\ report = <<>> /\ command_output = <<>>
    /\ acc = <<>> /\ new_output = <<>>
    /\ sessOpen = FALSE /\ opens = 0 /\ alive = FALSE /\ eof = FALSE
    /\ stdin = <<>> /\ running = 0 /\ emitted = 0 /\ outbuf = <<>>
    /\ sent = <<>> /\ inputs = 0 /\ lastOracle = "none" /\ asked = <<>>
    /\ response = <<>> /\ stack = <<>> /\ received = <<>>
    /\ gpc = "identify_goals"
    /\ GraphIdle

NextGraph == IdentifyGoals \/ IdentifyCommands \/ ExecuteCommands \/ MutatorStart
             \/ RepairStep \/ MutatorFinish \/ ProcessMoreGoals \/ GraphRaises

SpecGraph == InitGraph /\ [][NextGraph]_vars

(***************************************************************************)
(* Properties.                                                             *)
(***************************************************************************)
RECURSIVE Flatten(_)
Flatten(rs) == IF rs = <<>> THEN <<>> ELSE Head(rs).text \o Flatten(Tail(rs))

\* C1: whenever execute_commands_sync returns, of either executor, report holds one
\* CommandReport per command of the batch, the i-th made in the i-th command's
\* round; at any moment there is one report per command judged so far, in order.
C1_OneReportPerCommandInOrder ==
    /\ Len(report) = idx
    /\ \A i \in 1..Len(report) : report[i] = CommandReport(i)
    /\ pc = "returned" => Len(report) = ncommands

C1_Witness ==
    executor = "local" /\ pc = "returned" /\ ncommands = 2 /\ Len(report) = 2

C3_CollectOutputReturns ==
    (executor = "local" /\ pc = "collect") ~> (pc # "collect")

\* C4 (as claimed): collect_output makes no further read once the text it has
\* accumulated contains the marker, also when the marker came in two chunks.
C4_MarkerAcrossReads ==
    (executor = "local" /\ pc = "collect") => ~Contains(Marker(idx + 1), acc)

\* C5 (as claimed): the recursion of collect_response always ends.
C5_DrainingTerminates ==
    (executor = "container" /\ pc = "cr") ~> (pc # "cr")

C7_SessionClosedOnExit ==
    pc \in {"returned", "raised"} => (opens = 1 /\ ~sessOpen)

\* C8 (as claimed): the local executor submits a command only when no earlier
\* command of the batch is still executing in the session.
C8_SubmitsOnlyWhenPreviousEnded ==
    [][ (executor = "local" /\ pc = "loop" /\ pc' = "collect") => running = 0 ]_vars

\* C9 (as claimed): the GoalReports the previous pipeline state holds, with their
\* lists of command reports and of modification reports, read as they did before
\* the running stage started.
C9_PreviousReportsUnchanged ==
    DeepOf(prev_reports) = prev_deep

\* C10: when the repair loop is over, fetch_modify_file_commands was called once
\* for each command report of the goal that is not a success, in report order,
\* and for no other; the goal's list of modification reports has as many reports
\* as corrective commands were returned, and is empty when every command succeeded.
C10_RepairLoopCallsAndLength ==
    gpc = "process_more_goals" =>
      LET g == Last(goal_reports)
          crs == lists[g.command_reports]
          mods == lists[g.modify_command_reports]
      IN /\ \A i \in 1..Len(crs) :
              Cardinality({k \in 1..Len(calls) : calls[k] = i})
                = IF crs[i].success = "success" THEN 0 ELSE 1
         /\ \A k \in 1..Len(calls) : calls[k] \in 1..Len(crs)
         /\ \A k \in 1..(Len(calls) - 1) : calls[k] < calls[k + 1]
         /\ Len(mods) = fixes
         /\ (\A i \in 1..Len(crs) : crs[i].success = "success") => mods = <<>>

C10_Witness ==
    /\ gpc = "process_more_goals"
    /\ calls = <<1, 2>> /\ fixes = 1
    /\ Len(lists[Last(goal_reports).modify_command_reports]) = 1
    /\ lists[Last(goal_reports).modify_command_reports][1].success = "failure"

\* the edges of the graph GraphAgent.__init__ builds, and the way a stage fails
StageEdges ==
    {<<"identify_goals", "identify_commands">>,
     <<"identify_commands", "execute_commands">>,
     <<"execute_commands", "execute_mutator_commands">>,
     <<"execute_mutator_commands", "repair">>,
     <<"repair", "process_more_goals">>,
     <<"process_more_goals", "identify_commands">>,
     <<"process_more_goals", "END">>}

\* every command report of the k-th GoalReport carries a verdict: the goal's
\* commands have been executed
Executed(k) ==
    \A i \in 1..Len(lists[goal_reports[k].command_reports]) :
        lists[goal_reports[k].command_reports][i].success \in Judged

\* C11: the stages of a goal follow the graph's edges, identify_commands then
\* execute_commands then execute_mutator_commands; the k-th GoalReport is the k-th
\* goal's; the commands of the next goal are generated only when every earlier
\* goal's commands were executed and no repair pass is open; and an execution or
\* repair step works on the last goal only, leaving what the earlier GoalReports
\* show as it was.
C11_StagesInOrderPerGoal ==
    [][ /\ gpc' # gpc => (gpc' = "raised" \/ <<gpc, gpc'>> \in StageEdges)
        /\ \A k \in 1..Len(goal_reports') : goal_reports'[k].goal_name = k
        /\ gpc = "identify_commands" =>
             /\ cur = <<>>
             /\ \A k \in 1..Len(goal_reports) : Executed(k)
        /\ gpc \in {"execute_commands", "execute_mutator_commands", "repair"} =>
             /\ Len(goal_reports') = Len(goal_reports)
             /\ goals' = goals
             /\ \A k \in 1..(Len(goal_reports) - 1) :
                  /\ Executed(k)
                  /\ DeepOf(goal_reports)'[k] = DeepOf(goal_reports)[k]
      ]_vars

C11_Witness ==
    /\ gpc = "repair" /\ Len(goal_reports) = 2 /\ mpos = 1 /\ fixes = 1
    /\ Len(lists[goal_reports[1].modify_command_reports]) = 1

\* an upper bound of the stage steps left for one goal
StageSpan == MaxGoalCmds + 5

\* the stage steps the pipeline has left at most
WorkLeft ==
    CASE gpc = "identify_goals" -> (MaxGoals + 1) * StageSpan + 1
      [] gpc = "identify_commands" -> Len(goals) * StageSpan + 1
      [] gpc = "execute_commands" -> Len(goals) * StageSpan + StageSpan
      [] gpc = "execute_mutator_commands" -> Len(goals) * StageSpan + StageSpan - 1
      [] gpc = "repair" ->
           Len(goals) * StageSpan + 3 + Len(lists[cur[1].command_reports]) - mpos
      [] gpc = "process_more_goals" -> Len(goals) * StageSpan + 2
      [] OTHER -> 0

\* C12: once the goals are identified, the goals already processed are the first
\* ones, once each and in the identified order, and the goals left are the rest
\* (so their total stays G); the pipeline loops back to identify_commands exactly
\* when goals are left and ends with none left and G GoalReports; every step
\* brings the end nearer, and a stage whose calls return never blocks.
C12_EachGoalOnceThenEnd ==
    [][ /\ WorkLeft' < WorkLeft
        /\ WorkLeft' >= 0
        /\ gpc' # "identify_goals"
        /\ \A k \in 1..Len(goal_reports') : goal_reports'[k].goal_name = k
        /\ \A j \in 1..Len(goals') : goals'[j] = Len(goal_reports') + j
        /\ gpc # "identify_goals" =>
             Len(goals') + Len(goal_reports') = Len(goals) + Len(goal_reports)
        /\ gpc = "process_more_goals" =>
             gpc' = IF goals # <<>> THEN "identify_commands" ELSE "END"
        /\ gpc' = "END" => goals' = <<>>
        /\ (gpc' \notin {"END", "raised"} /\ ~(gpc' = "identify_commands" /\ goals' = <<>>))
             => (ENABLED (NextGraph /\ gpc' # "raised"))'
      ]_vars

C12_Witness ==
    /\ gpc = "END" /\ goals = <<>> /\ Len(goal_reports) = MaxGoals
    /\ \A k \in 1..MaxGoals : goal_reports[k].goal_name = k /\ Executed(k)

\* C13 (as claimed): a provide_input call one of whose runs did not complete ends
\* the batch with an exception; the batch never goes on after it.
C13_FailedOracleEndsBatch ==
    lastOracle = "failed" => pc = "raised"

\* C14 (as claimed): once a read of the session has raised EOF, the local executor
\* makes no further collect_output call and sends nothing more into the session.
C14_EOFEndsCollection ==
    [][ (executor = "local" /\ eof) => (pc' # "collect" /\ sent' = sent) ]_vars

\* C15: a collect_output call starts with an empty accumulator, appends every chunk
\* it reads, in order, and returns the accumulated text at the first chunk that
\* holds the marker, without another read; a chunk without the marker does not
\* end the call.
C15_ReturnsAtMarkerChunk ==
    [][ executor = "local" =>
          /\ (pc # "collect" /\ pc' = "collect") => acc' = <<>>
          /\ (pc = "collect" /\ acc' # acc) =>
               LET chunk == Take(outbuf, ReadSize) IN
                 /\ chunk # <<>>
                 /\ acc' = acc \o chunk
                 /\ outbuf' = Drop(outbuf, ReadSize)
                 /\ IF Contains(Marker(idx + 1), chunk)
                      THEN pc' = "collected" /\ new_output' = acc \o chunk
                      ELSE pc' = "collect" /\ new_output' = new_output
          /\ (pc = "collected" /\ Contains(Marker(idx + 1), new_output)) =>
               /\ outbuf' = outbuf \/ Len(outbuf') > Len(outbuf)
               /\ acc' \in {acc, <<>>}
      ]_vars

C15_Witness ==
    /\ executor = "local" /\ pc = "collected" /\ idx = 0
    /\ new_output = << <<"e", 1>>, <<"o", 1>> >> \o Marker(1)

\* C16 (as claimed): when the marker of the command is never printed, the local
\* executor's collection loop for the command ends and the command is judged,
\* even granted that every collect_output call returns and that the agent never
\* gives an input.
C16_CollectionLoopEnds ==
    (/\ []<>(pc # "collect")
     /\ [](~Contains(Marker(idx + 1), outbuf))
     /\ [](lastOracle # "text")) =>
      ((executor = "local" /\ pc = "collect") ~> (pc \in {"judge", "raised"}))

\* C17 (as claimed): when a command ends and the shell lives on, the command's
\* marker is printed, after everything the command printed.
C17_MarkerFollowsEveryEnd ==
    [][ (executor = "local" /\ running # 0 /\ running' = 0 /\ alive')
          => outbuf' = outbuf \o Marker(running) ]_vars

\* the literal texts the agent can give
InputTexts == {i.text : i \in {j \in Instructions : Truthy(j) /\ j # Noop}}

\* C18: when the local executor has collected a chunk and goes back to collecting,
\* it has sent text into the session exactly if the agent gave a literal text for
\* the chunk; then that text is the one line sent, and the record of the command
\* gains the chunk, the text and a line separator, in this order; otherwise the
\* record gains the chunk only and nothing is written.  No other step of the
\* collection sends anything.
C18_InputSentIffOracleGaveText ==
    [][ (executor = "local" /\ pc \in {"collect", "collected"}) =>
          IF pc = "collected" /\ pc' = "collect"
            THEN /\ (sent' # sent) <=> (lastOracle' = "text")
                 /\ lastOracle' = "text" =>
                      \E t \in InputTexts :
                        /\ sent' = Append(sent, InputLine(t))
                        /\ stdin' = SendLines(<<InputLine(t)>>)
                        /\ command_output' = command_output \o new_output \o t \o LineSep
                 /\ lastOracle' # "text" =>
                      /\ stdin' = stdin
                      /\ command_output' = command_output \o new_output
            ELSE sent' = sent
      ]_vars

C18_Witness ==
    /\ executor = "local" /\ pc = "judge" /\ idx = 0 /\ Len(sent) = 3
    /\ Len(command_output) > 3
    /\ SubSeq(command_output, 1, 3) = << <<"e", 1>>, <<"t", 0>>, <<"n", 0>> >>

\* C19: a provide_input call of the local executor is given what collect_output
\* read in the call that just returned, and the next collect_output call starts
\* from nothing; every character is read from the session once.  A provide_input
\* call of the container executor is given the response received last, and the
\* next call is given a response received after it.
C19_GatewayGetsFreshOutputOnly ==
    [][ /\ (executor = "local" /\ pc = "collected" /\ pc' = "collect") =>
             /\ asked' = acc
             /\ acc = new_output
             /\ acc' = <<>>
        /\ (executor = "local" /\ pc = "collect" /\ acc' # acc) =>
             /\ acc' = acc \o Take(outbuf, ReadSize)
             /\ outbuf' = Drop(outbuf, ReadSize)
        /\ (executor = "local" /\ pc # "collect" /\ pc' = "collect") => acc' = <<>>
        /\ (executor = "container" /\ pc = "cr" /\ pc' = "cr") =>
             LET n == Len(received) IN
               /\ asked' = response
               /\ response = received[n].text
               /\ received[n].role # "input"
               /\ Len(received') > n
               /\ SubSeq(received', 1, n) = received
               /\ received'[Len(received')].role = "trailing"
               /\ response' = received'[Len(received')].text
      ]_vars

C19_Witness ==
    /\ executor = "local" /\ pc = "collect" /\ lastOracle = "noop"
    /\ asked # <<>> /\ Len(command_output) > Len(asked)

\* C20 (as claimed): once the marker of the command is in what was collected for
\* it, the local executor sends nothing more into the session for that command.
C20_NoInputAfterMarker ==
    [][ (executor = "local" /\ pc = "collected"
           /\ Contains(Marker(idx + 1), command_output \o new_output))
          => sent' = sent ]_vars

\* what an earlier command of the batch printed: its own output or its marker
FromEarlier(ch, i) == ch[1] \in {"o", "a", "b"} /\ ch[2] < i

\* C21 (as claimed): the record the local executor hands to the judge for a
\* command holds nothing an earlier command of the batch printed, neither its
\* output nor its marker.
C21_RecordHoldsOwnOutputOnly ==
    (executor = "local" /\ pc = "judge") =>
      \A k \in 1..Len(command_output) : ~FromEarlier(command_output[k], idx + 1)

\* C22 (as claimed): identify_commands is entered only with a goal left, so the
\* head of an empty goals list is never read.
C22_IdentifyCommandsHasGoal ==
    gpc = "identify_commands" => goals # <<>>

====
